---- MODULE Spec2Model ----
(***************************************************************************)
(* A model of pycocontainer: the dependency graph of dag.py (Graph), the   *)
(* lifecycle container of pycocontainer.py (LifecycleContainer) and the    *)
(* registries of the dependency injection container (Pycocontainer).       *)
(*                                                                         *)
(* Vertices are component instances, modelled as the numbers 1..NumNodes;  *)
(* None is 0.  Graph.edges is a dict from vertex to a LIST of direct       *)
(* successors (a list may hold the same vertex twice), Graph.toporder is   *)
(* a list.  set.pop() takes an arbitrary element, so _toposort is modelled *)
(* by the set of all results the pops can produce.                         *)
(***************************************************************************)
EXTENDS Integers, Sequences, FiniteSets, TLC

\* ------------------------------------------------------------------ bounds
NumNodes == 3
MaxEdges == 3
MaxGraphCalls == 3
MaxEarly == 1

Nodes == 1..NumNodes
None == 0

VARIABLES
    edges,      \* Graph.edges: vertex -> list of direct successors
    toporder,   \* Graph.toporder
    gcall,      \* the last Graph call and how it ended
    stage,      \* node.stage of every component instance
    cstage,     \* the container's own stage
    call,       \* the container call in progress: op, target, res
    todo,       \* what is left of that call
    log,        \* the node actions the call has invoked so far, in order
    gcalls,     \* the number of Graph calls made next to container calls
    earlies,    \* the number of node actions that returned early
    component_registry,  \* Pycocontainer._component_registry: class -> name
    component_names,     \* Pycocontainer._component_names: name -> class
    instance_registry,   \* Pycocontainer._instance_registry: name -> object
    classOf,    \* the class of every object made so far; object i is vertex i
    constants,  \* the objects placed in the container with add(key, value)
    pcall       \* the last Pycocontainer call and how it ended

gvars == <<edges, toporder, gcall>>
lvars == <<stage, cstage, call, todo, log>>
pvars == <<component_registry, component_names, instance_registry, classOf, constants, pcall>>
vars == <<edges, toporder, gcall, stage, cstage, call, todo, log, gcalls, earlies,
          component_registry, component_names, instance_registry, classOf, constants, pcall>>

\* ------------------------------------------------------------- list helpers
Range(s) == { s[i] : i \in 1..Len(s) }

\* list.remove(x): deletes the first occurrence of x
RECURSIVE ListRemove(_, _)
ListRemove(s, x) ==
    IF s = <<>> THEN <<>>
    ELSE IF Head(s) = x THEN Tail(s)
    ELSE <<Head(s)>> \o ListRemove(Tail(s), x)

\* [x for x in order if x in keep]
RECURSIVE Filter(_, _)
Filter(order, keep) ==
    IF order = <<>> THEN <<>>
    ELSE IF Head(order) \in keep THEN <<Head(order)>> \o Filter(Tail(order), keep)
    ELSE Filter(Tail(order), keep)

\* list(reversed(s))
Reversed(s) == [ i \in 1..Len(s) |-> s[Len(s) + 1 - i] ]

\* ------------------------------------------------------------------- Graph
\* Graph.vertices(): the keys of the edges dict
vertices(E) == DOMAIN E

\* itertools.chain.from_iterable(edges.values()) as a set
Children(E) == UNION { Range(E[k]) : k \in DOMAIN E }

\* the inner loop with the incoming-edge test left out: m joins rem as soon as
\* one edge to it is removed
RECURSIVE Relax_NoIncomingTest(_, _, _, _)
Relax_NoIncomingTest(E, n, ms, rem) ==
    IF ms = <<>> THEN [e |-> E, rem |-> rem]
    ELSE LET m  == Head(ms)
             E2 == [E EXCEPT ![n] = ListRemove(E[n], m)]
         IN  Relax_NoIncomingTest(E2, n, Tail(ms), rem \cup {m})

\* the inner loop of _toposort for the popped vertex n: each m of a copy of
\* edges[n] is removed from edges[n]; m joins rem when no list mentions it
RECURSIVE Relax(_, _, _, _)
Relax(E, n, ms, rem) ==
    IF ms = <<>> THEN [e |-> E, rem |-> rem]
    ELSE LET m  == Head(ms)
             E2 == [E EXCEPT ![n] = ListRemove(E[n], m)]
             incoming == { e \in DOMAIN E2 : m \in Range(E2[e]) }
         IN  Relax(E2, n, Tail(ms), IF incoming = {} THEN rem \cup {m} ELSE rem)

\* the while loop without the residual-edge test: never raises
RECURSIVE Kahn_IgnoresResidue(_, _, _)
Kahn_IgnoresResidue(E, rem, ret) ==
    IF rem = {}
    THEN { [ok |-> TRUE, order |-> ret] }
    ELSE UNION { LET r == IF n \in DOMAIN E
                          THEN Relax(E, n, E[n], rem \ {n})
                          ELSE [e |-> E, rem |-> rem \ {n}]
                 IN  Kahn_IgnoresResidue(r.e, r.rem, Append(ret, n))
               : n \in rem }

\* the while loop of _toposort; the result is the set of outcomes over every
\* order in which rem.pop() can hand out the vertices
RECURSIVE Kahn(_, _, _)
Kahn(E, rem, ret) ==
    IF rem = {}
    THEN { IF Children(E) # {} THEN [ok |-> FALSE, order |-> <<>>]
                               ELSE [ok |-> TRUE, order |-> ret] }
    ELSE UNION { LET r == IF n \in DOMAIN E
                          THEN Relax(E, n, E[n], rem \ {n})
                          ELSE [e |-> E, rem |-> rem \ {n}]
                 IN  Kahn(r.e, r.rem, Append(ret, n))
               : n \in rem }

\* Graph._toposort(graph)
Toposort(E) == Kahn(E, { x \in DOMAIN E : x \notin Children(E) }, <<>>)

\* the edges dict Graph.add(v, w) hands to _toposort (v is not None)
AddEdges(E, v, w) ==
    IF w = None
    THEN IF v \notin DOMAIN E THEN [k \in DOMAIN E \cup {v} |-> IF k = v THEN <<>> ELSE E[k]]
                              ELSE E
    ELSE LET E1 == IF v \notin DOMAIN E
                   THEN [k \in DOMAIN E \cup {v} |-> IF k = v THEN <<w>> ELSE E[k]]
                   ELSE [E EXCEPT ![v] = Append(E[v], w)]
         IN  IF w \notin DOMAIN E1
             THEN [k \in DOMAIN E1 \cup {w} |-> IF k = w THEN <<>> ELSE E1[k]]
             ELSE E1

\* the edges dict Graph.remove(v) hands to _toposort (v is not None)
RemoveEdges(E, v) ==
    LET E1 == [k \in DOMAIN E \ {v} |-> E[k]]
    IN  [k \in DOMAIN E1 |-> IF v \in Range(E1[k]) THEN ListRemove(E1[k], v) ELSE E1[k]]

NoCall == [op |-> "none", v |-> None, w |-> None, res |-> "ok"]

\* add and remove assigning self.edges before _toposort is called
Commit_AssignsFirst(E, op, v, w) ==
    /\ \E r \in Toposort(E) :
        IF r.ok
        THEN /\ toporder' = r.order
             /\ edges' = E
             /\ gcall' = [op |-> op, v |-> v, w |-> w, res |-> "ok"]
        ELSE /\ edges' = E
             /\ UNCHANGED toporder
             /\ gcall' = [op |-> op, v |-> v, w |-> w, res |-> "raise"]
    /\ UNCHANGED <<lvars, pvars>>

\* the tail of add and remove: toporder and edges are assigned only when
\* _toposort returns; when it raises both keep their values
Commit(E, op, v, w) ==
    /\ \E r \in Toposort(E) :
        IF r.ok
        THEN /\ toporder' = r.order
             /\ edges' = E
             /\ gcall' = [op |-> op, v |-> v, w |-> w, res |-> "ok"]
        ELSE /\ UNCHANGED <<edges, toporder>>
             /\ gcall' = [op |-> op, v |-> v, w |-> w, res |-> "raise"]
    /\ UNCHANGED <<lvars, pvars>>

\* the number of entries of all the lists of the edges dict
RECURSIVE SumLen(_, _)
SumLen(E, ks) ==
    IF ks = {} THEN 0
    ELSE LET k == CHOOSE x \in ks : TRUE IN Len(E[k]) + SumLen(E, ks \ {k})

EdgeCount(E) == SumLen(E, DOMAIN E)

\* Graph.add(v) and Graph.add(v, w)
GraphAdd(v, w) ==
    /\ w # None => EdgeCount(edges) < MaxEdges
    /\ Commit(AddEdges(edges, v, w), "add", v, w)

\* Graph.add() with neither argument: returns self at once
GraphAddNone ==
    /\ gcall' = [op |-> "add", v |-> None, w |-> None, res |-> "ok"]
    /\ UNCHANGED <<edges, toporder>>
    /\ UNCHANGED <<lvars, pvars>>

\* Graph.remove(v)
GraphRemove(v) ==
    Commit(RemoveEdges(edges, v), "remove", v, None)

\* Graph.successors(vertex): KeyError when vertex is no key of edges
RECURSIVE SuccClosure(_, _, _)
SuccClosure(E, rem, ret) ==
    IF rem = {} THEN ret
    ELSE LET n == CHOOSE x \in rem : TRUE
         IN  SuccClosure(E, (rem \ {n}) \cup (IF n \in DOMAIN E THEN Range(E[n]) ELSE {}),
                         ret \cup {n})

\* successors answering with the direct successors only
successors_DirectOnly(E, order, vertex) ==
    Filter(order, Range(E[vertex]))

successors(E, order, vertex) ==
    Filter(order, SuccClosure(E, Range(E[vertex]), {}))

\* Graph.precursors(vertex)
RECURSIVE PrecClosure(_, _, _)
PrecClosure(E, rem, ret) ==
    IF rem = {} THEN ret
    ELSE LET n == CHOOSE x \in rem : TRUE
         IN  PrecClosure(E, (rem \ {n}) \cup { m \in DOMAIN E : n \in Range(E[m]) },
                         ret \cup {n})

precursors(E, order, vertex) ==
    Filter(order, PrecClosure(E, { x \in DOMAIN E : vertex \in Range(E[x]) }, {}))

\* a call of Graph.successors / Graph.precursors as its caller sees it: the
\* list returned, or the KeyError of edges[vertex]
successorsCall(E, order, vertex) ==
    IF vertex \notin DOMAIN E
    THEN [res |-> "KeyError", ret |-> <<>>]
    ELSE [res |-> "ok", ret |-> successors(E, order, vertex)]

precursorsCall(E, order, vertex) ==
    [res |-> "ok", ret |-> precursors(E, order, vertex)]

\* ------------------------------------------------------ lifecycle container
\* class Stage, and the three node actions of the capability set
Stages == {"starting", "started", "stopping", "stopped", "failing", "failed"}
Actions == {"start", "stop", "fail"}

\* the terminal stage a node action must produce, and the stage its
\* decorator enters before running the action
Terminal(a) == CASE a = "start" -> "started" [] a = "stop" -> "stopped" [] OTHER -> "failed"
Entering(a) == CASE a = "start" -> "starting" [] a = "stop" -> "stopping" [] OTHER -> "failing"

\* one step of a container call: set the container's stage (k = "cs"),
\* handle one node (k = "nd": action a on node n, raising err when the node
\* does not end in the terminal stage), or raise (k = "raise")
SetStage(s) == [k |-> "cs", a |-> s, n |-> None, err |-> ""]
OnNode(a, n, err) == [k |-> "nd", a |-> a, n |-> n, err |-> err]
Raise(e) == [k |-> "raise", a |-> e, n |-> None, err |-> ""]

OnNodes(a, ns, err) == [ i \in 1..Len(ns) |-> OnNode(a, ns[i], err) ]

\* start(None) sweeping toporder in descending order
StartProg_Descending(E, order, t) ==
    <<SetStage("starting")>>
    \o (IF t = None
        THEN OnNodes("start", Reversed(order), "LifecycleException")
        ELSE OnNodes("start", precursors(E, order, t) \o <<t>>, "LifecycleException"))
    \o <<SetStage("started")>>

\* start(instance) starting the precursors but not the instance
StartProg_SkipsTarget(E, order, t) ==
    <<SetStage("starting")>>
    \o (IF t = None
        THEN OnNodes("start", order, "LifecycleException")
        ELSE OnNodes("start", precursors(E, order, t), "LifecycleException"))
    \o <<SetStage("started")>>

\* LifecycleContainer.start(instance)
StartProg(E, order, t) ==
    <<SetStage("starting")>>
    \o (IF t = None
        THEN OnNodes("start", order, "LifecycleException")
        ELSE OnNodes("start", precursors(E, order, t) \o <<t>>, "LifecycleException"))
    \o <<SetStage("started")>>

\* stop(instance) sweeping every node of toporder instead of the descendants
StopProg_SweepsAll(E, order, t) ==
    IF t = None
    THEN <<SetStage("stopping")>>
         \o OnNodes("stop", Reversed(order), "LifecycleException")
         \o <<SetStage("stopped")>>
    ELSE IF t \notin DOMAIN E THEN <<Raise("KeyError")>>
    ELSE LET descendants == successors(E, order, t)
             covered == Len(descendants) = Len(order) - 1
         IN  (IF covered THEN <<SetStage("stopping")>> ELSE <<>>)
             \o OnNodes("stop", Reversed(order), "LifecycleException")
             \o <<OnNode("stop", t, "LifecycleException")>>
             \o (IF covered THEN <<SetStage("stopped")>> ELSE <<>>)

\* stop(instance) stopping the instance but none of its descendants
StopProg_TargetOnly(E, order, t) ==
    IF t = None
    THEN <<SetStage("stopping")>>
         \o OnNodes("stop", Reversed(order), "LifecycleException")
         \o <<SetStage("stopped")>>
    ELSE IF t \notin DOMAIN E THEN <<Raise("KeyError")>>
    ELSE LET descendants == successors(E, order, t)
             covered == Len(descendants) = Len(order) - 1
         IN  (IF covered THEN <<SetStage("stopping")>> ELSE <<>>)
             \o <<OnNode("stop", t, "LifecycleException")>>
             \o (IF covered THEN <<SetStage("stopped")>> ELSE <<>>)

\* stop(instance) setting the container's own stage whether or not the
\* descendants cover the graph
StopProg_AlwaysCovered(E, order, t) ==
    IF t = None
    THEN <<SetStage("stopping")>>
         \o OnNodes("stop", Reversed(order), "LifecycleException")
         \o <<SetStage("stopped")>>
    ELSE IF t \notin DOMAIN E THEN <<Raise("KeyError")>>
    ELSE LET descendants == successors(E, order, t)
         IN  <<SetStage("stopping")>>
             \o OnNodes("stop", Reversed(descendants), "LifecycleException")
             \o <<OnNode("stop", t, "LifecycleException")>>
             \o <<SetStage("stopped")>>

\* LifecycleContainer.stop(instance)
StopProg(E, order, t) ==
    IF t = None
    THEN <<SetStage("stopping")>>
         \o OnNodes("stop", Reversed(order), "LifecycleException")
         \o <<SetStage("stopped")>>
    ELSE IF t \notin DOMAIN E THEN <<Raise("KeyError")>>
    ELSE LET descendants == successors(E, order, t)
             covered == Len(descendants) = Len(order) - 1
         IN  (IF covered THEN <<SetStage("stopping")>> ELSE <<>>)
             \o OnNodes("stop", Reversed(descendants), "LifecycleException")
             \o <<OnNode("stop", t, "LifecycleException")>>
             \o (IF covered THEN <<SetStage("stopped")>> ELSE <<>>)

\* LifecycleContainer.fail(instance); the raise for a descendant names the
\* unbound local `node`, so what is raised there is an UnboundLocalError
FailProg(E, order, t) ==
    IF t = None
    THEN <<SetStage("failing")>>
         \o OnNodes("fail", Reversed(order), "LifecycleException")
         \o <<SetStage("failed")>>
    ELSE IF t \notin DOMAIN E THEN <<Raise("KeyError")>>
    ELSE LET descendants == successors(E, order, t)
             covered == Len(descendants) = Len(order) - 1
         IN  (IF covered THEN <<SetStage("failing")>> ELSE <<>>)
             \o OnNodes("fail", Reversed(descendants), "UnboundLocalError")
             \o <<OnNode("fail", t, "LifecycleException")>>
             \o (IF covered THEN <<SetStage("failed")>> ELSE <<>>)

RECURSIVE StartEach(_, _, _)
StartEach(E, order, ds) ==
    IF ds = <<>> THEN <<>>
    ELSE StartProg(E, order, Head(ds)) \o StartEach(E, order, Tail(ds))

\* restart(instance) starting the instance again but not its descendants
RestartProg_OnlyTarget(E, order, t) ==
    StopProg(E, order, t)
    \o (IF t \notin DOMAIN E
        THEN <<Raise("KeyError")>>
        ELSE StartProg(E, order, t))

\* restart(instance) calling start for the descendants in descending order
RestartProg_Descending(E, order, t) ==
    StopProg(E, order, t)
    \o (IF t \notin DOMAIN E
        THEN <<Raise("KeyError")>>
        ELSE StartEach(E, order, Reversed(successors(E, order, t))) \o StartProg(E, order, t))

\* LifecycleContainer.restart(instance)
RestartProg(E, order, t) ==
    StopProg(E, order, t)
    \o (IF t \notin DOMAIN E
        THEN <<Raise("KeyError")>>
        ELSE StartEach(E, order, successors(E, order, t)) \o StartProg(E, order, t))

Prog(o, t) ==
    CASE o = "start" -> StartProg(edges, toporder, t)
      [] o = "stop" -> StopProg(edges, toporder, t)
      [] o = "fail" -> FailProg(edges, toporder, t)
      [] OTHER -> RestartProg(edges, toporder, t)

\* run the container's own code up to the next node action, the end of the
\* call or a raise
RECURSIVE Drain(_, _)
Drain(td, cs) ==
    IF td = <<>> THEN [todo |-> <<>>, cstage |-> cs, res |-> "ok"]
    ELSE IF Head(td).k = "cs" THEN Drain(Tail(td), Head(td).a)
    ELSE IF Head(td).k = "raise" THEN [todo |-> <<>>, cstage |-> cs, res |-> Head(td).a]
    ELSE [todo |-> td, cstage |-> cs, res |-> "running"]

Idle == [op |-> "idle", target |-> None, res |-> "ok"]

\* a container method is called: start, stop, fail or restart, with a target
\* or with None
Begin(o, t) ==
    /\ call = Idle
    /\ LET d == Drain(Prog(o, t), cstage)
       IN  /\ cstage' = d.cstage
           /\ todo' = d.todo
           /\ call' = [op |-> o, target |-> t, res |-> d.res]
    /\ log' = <<>>
    /\ gcall' = NoCall
    /\ UNCHANGED <<edges, toporder, stage, gcalls, earlies, pvars>>

\* _start_node without the stage test: the start action is invoked again on
\* a node that is already Started
Invokes_StartAlways(a, s) ==
    CASE a = "start" -> s # "starting"
      [] a = "stop" -> s \notin {"stopped", "stopping"}
      [] OTHER -> TRUE

\* whether _start_node / _stop_node / the fail loops invoke the node's action
Invokes(a, s) ==
    CASE a = "start" -> s \notin {"started", "starting"}
      [] a = "stop" -> s \notin {"stopped", "stopping"}
      [] OTHER -> TRUE

\* the stages a node action can leave the node in: the terminal stage when
\* the action completes, the entered stage when it returns early
Outcomes(a) == {Terminal(a), Entering(a)}

\* a sweep that does not test the node's stage after the action: it goes on
\* to the next node whatever stage the action left
Step_IgnoresFailure(early) ==
    /\ call.res = "running"
    /\ LET i == Head(todo)
       IN  \E s \in (IF ~Invokes(i.a, stage[i.n]) THEN {stage[i.n]}
                     ELSE IF early /\ earlies < MaxEarly THEN Outcomes(i.a)
                     ELSE {Terminal(i.a)}) :
             /\ stage' = [stage EXCEPT ![i.n] = s]
             /\ earlies' = IF Invokes(i.a, stage[i.n]) /\ s # Terminal(i.a)
                           THEN earlies + 1 ELSE earlies
             /\ log' = IF Invokes(i.a, stage[i.n]) THEN Append(log, <<i.n, i.a>>) ELSE log
             /\ LET d == Drain(Tail(todo), cstage)
                IN  /\ cstage' = d.cstage
                    /\ todo' = d.todo
                    /\ call' = [call EXCEPT !.res = d.res]
    /\ UNCHANGED <<edges, toporder, gcall, gcalls, pvars>>

\* the call handles its next node and runs on to the node after it; the
\* node's action completes, or (early = TRUE) it may also return early
Step(early) ==
    /\ call.res = "running"
    /\ LET i == Head(todo)
       IN  \E s \in (IF ~Invokes(i.a, stage[i.n]) THEN {stage[i.n]}
                     ELSE IF early /\ earlies < MaxEarly THEN Outcomes(i.a)
                     ELSE {Terminal(i.a)}) :
             /\ stage' = [stage EXCEPT ![i.n] = s]
             /\ earlies' = IF Invokes(i.a, stage[i.n]) /\ s # Terminal(i.a)
                           THEN earlies + 1 ELSE earlies
             /\ log' = IF Invokes(i.a, stage[i.n]) THEN Append(log, <<i.n, i.a>>) ELSE log
             /\ IF s # Terminal(i.a)
                THEN /\ todo' = <<>>
                     /\ call' = [call EXCEPT !.res = i.err]
                     /\ UNCHANGED cstage
                ELSE LET d == Drain(Tail(todo), cstage)
                     IN  /\ cstage' = d.cstage
                         /\ todo' = d.todo
                         /\ call' = [call EXCEPT !.res = d.res]
    /\ UNCHANGED <<edges, toporder, gcall, gcalls, pvars>>

\* the call returns or its exception reaches the caller
Return ==
    /\ call.op # "idle"
    /\ call.res # "running"
    /\ call' = Idle
    /\ log' = <<>>
    /\ UNCHANGED <<edges, toporder, gcall, stage, cstage, todo, gcalls, earlies, pvars>>

\* a node's own start, stop or fail is called directly, outside the
\* container
NodeCall(n, a) ==
    /\ call = Idle
    /\ stage' = [stage EXCEPT ![n] = Terminal(a)]
    /\ gcall' = NoCall
    /\ UNCHANGED <<edges, toporder, cstage, call, todo, log, gcalls, earlies, pvars>>

\* ------------------------------------------------------------ Pycocontainer
\* The component classes are those of test.py: A, whose __init__ takes b,
\* and B, whose __init__ takes nothing; str is the class of a plain value.
\* Objects are numbered as they are made; object i is the vertex i of the
\* graph when it is added to it.
Classes == {"A", "B"}
PlainClass == "str"
Varnames(cls) == IF cls = "A" THEN <<"b">> ELSE <<>>
Keys == {"a", "b", "foo"}

\* the hints argument of instance_of: {} or {'b': 'foo'}
HintSets == { <<>>, [v \in {"b"} |-> "foo"] }

NoPCall == [op |-> "none", res |-> "ok"]

\* d[k] = v on a dict
Put(d, k, v) == [x \in DOMAIN d \cup {k} |-> IF x = k THEN v ELSE d[x]]

\* the state instance_of works on
PicoState ==
    [reg |-> component_registry, names |-> component_names,
     inst |-> instance_registry, cls |-> classOf, E |-> edges]

\* the loop over deps at the end of instantiate: dag.add(dep, instance) for
\* every dep whose class is a key of the component registry
RECURSIVE AddDeps(_, _, _, _, _)
AddDeps(E, deps, o, reg, cls) ==
    IF deps = <<>> THEN E
    ELSE AddDeps(IF cls[Head(deps)] \in DOMAIN reg THEN AddEdges(E, Head(deps), o) ELSE E,
                 Tail(deps), o, reg, cls)

RECURSIVE Instantiate(_, _, _, _, _)
RECURSIVE Resolve(_, _, _, _, _)

\* the loop over varnames in instantiate: a hint names an instance, else an
\* instance of that name is taken, else the component registered under that
\* name is instantiated; deps collects the objects found
Resolve(st, vnames, deps, processing, hints) ==
    IF vnames = <<>> THEN [st |-> st, res |-> "ok", deps |-> deps]
    ELSE LET vname == Head(vnames)
         IN  IF vname \in DOMAIN hints
             THEN IF hints[vname] \in DOMAIN st.inst
                  THEN Resolve(st, Tail(vnames), Append(deps, st.inst[hints[vname]]),
                               processing, hints)
                  ELSE [st |-> st, res |-> "UnsatisfiableDependency", deps |-> deps]
             ELSE IF vname \in DOMAIN st.inst
             THEN Resolve(st, Tail(vnames), Append(deps, st.inst[vname]), processing, hints)
             ELSE IF vname \in DOMAIN st.names
             THEN IF vname \notin Range(processing)
                  THEN LET r == Instantiate(st, st.names[vname], vname,
                                            Append(processing, vname), hints)
                       IN  IF r.res # "ok"
                           THEN [st |-> r.st, res |-> r.res, deps |-> deps]
                           ELSE Resolve(r.st, Tail(vnames), Append(deps, r.inst),
                                        processing, hints)
                  ELSE [st |-> st, res |-> "CircularDependency", deps |-> deps]
             ELSE [st |-> st, res |-> "UnsatisfiableDependency", deps |-> deps]

\* instantiate(cls, name, processing) inside instance_of: registers the class
\* when it is not registered, resolves the dependencies, makes the instance,
\* stores it under name and adds it and its dependency edges to the graph
Instantiate(st, cls, name, processing, hints) ==
    LET r == IF cls \in DOMAIN st.reg THEN [st |-> st, res |-> "ok"]
             ELSE IF name \in DOMAIN st.names
             THEN [st |-> st, res |-> "DuplicateComponentName"]
             ELSE [st |-> [st EXCEPT !.reg = Put(@, cls, name),
                                     !.names = Put(@, name, cls)],
                   res |-> "ok"]
    IN  IF r.res # "ok" THEN [st |-> r.st, res |-> r.res, inst |-> None]
        ELSE LET d == Resolve(r.st, Varnames(cls), <<>>, processing, hints)
             IN  IF d.res # "ok" THEN [st |-> d.st, res |-> d.res, inst |-> None]
                 ELSE LET o  == Len(d.st.cls) + 1
                          s1 == [d.st EXCEPT !.cls = Append(@, cls),
                                             !.inst = Put(@, name, o),
                                             !.E = AddEdges(@, o, None)]
                      IN  [st |-> [s1 EXCEPT !.E = AddDeps(@, d.deps, o, s1.reg, s1.cls)],
                           res |-> "ok", inst |-> o]

\* Pycocontainer.register(cls, name)
Register(cls, name) ==
    /\ IF cls \in DOMAIN component_registry
       THEN /\ pcall' = [op |-> "register", res |-> "DuplicateComponentClass"]
            /\ UNCHANGED <<component_registry, component_names>>
       ELSE IF name \in DOMAIN component_names
       THEN /\ pcall' = [op |-> "register", res |-> "DuplicateComponentName"]
            /\ UNCHANGED <<component_registry, component_names>>
       ELSE /\ component_registry' = Put(component_registry, cls, name)
            /\ component_names' = Put(component_names, name, cls)
            /\ pcall' = [op |-> "register", res |-> "ok"]
    /\ UNCHANGED <<instance_registry, classOf, constants>>
    /\ UNCHANGED <<gvars, lvars, gcalls, earlies>>

\* Pycocontainer.add(key, value) with a value the caller has made: a plain
\* value (cls = str) or an instance of a component class; the value is
\* numbered when the container stores it
Add(key, cls) ==
    /\ Len(classOf) < NumNodes
    /\ IF key \in DOMAIN instance_registry \/ key \in DOMAIN component_names
       THEN /\ pcall' = [op |-> "add", res |-> "DuplicateInstanceName"]
            /\ UNCHANGED <<instance_registry, classOf, constants>>
       ELSE LET value == Len(classOf) + 1
            IN  /\ classOf' = Append(classOf, cls)
                /\ instance_registry' = Put(instance_registry, key, value)
                /\ constants' = constants \cup {value}
                /\ pcall' = [op |-> "add", res |-> "ok"]
    /\ UNCHANGED <<component_registry, component_names>>
    /\ UNCHANGED <<gvars, lvars, gcalls, earlies>>

\* Pycocontainer.add() without a key or without a value: returns None
AddNone ==
    /\ pcall' = [op |-> "add", res |-> "ok"]
    /\ UNCHANGED <<component_registry, component_names, instance_registry, classOf, constants>>
    /\ UNCHANGED <<gvars, lvars, gcalls, earlies>>

\* Pycocontainer.instance_of(cls, name, hints): retrieve, then instantiate.
\* What instantiate did before an exception stays done.  Every dag.add sorts
\* the graph again, so toporder is a sort of the edges of the last dag.add.
InstanceOf(cls, name, hints) ==
    /\ LET r == IF name \in DOMAIN instance_registry
                THEN [st |-> PicoState,
                      res |-> IF classOf[instance_registry[name]] = cls
                              THEN "ok" ELSE "DuplicateInstanceName"]
                ELSE Instantiate(PicoState, cls, name, <<>>, hints)
       IN  /\ Len(r.st.cls) <= NumNodes
           /\ component_registry' = r.st.reg
           /\ component_names' = r.st.names
           /\ instance_registry' = r.st.inst
           /\ classOf' = r.st.cls
           /\ edges' = r.st.E
           /\ IF r.st.E = edges
              THEN UNCHANGED toporder
              ELSE \E t \in Toposort(r.st.E) : t.ok /\ toporder' = t.order
           /\ pcall' = [op |-> "instance_of", res |-> r.res]
    /\ UNCHANGED <<gcall, lvars, gcalls, earlies, constants>>

\* ------------------------------------------------- graph-theoretic notions
\* the stored edge relation: v -> w for every w in the list edges[v]
IsEdge(E, a, b) == a \in DOMAIN E /\ b \in Range(E[a])

RECURSIVE Grow(_, _, _)
Grow(E, S, k) ==
    IF k = 0 THEN S
    ELSE Grow(E, S \cup { b \in Nodes : \E a \in S : IsEdge(E, a, b) }, k - 1)

\* the vertices reachable from v by one or more stored edges
Reach(E, v) == Grow(E, { b \in Nodes : IsEdge(E, v, b) }, NumNodes)

\* the vertices from which v is reachable by one or more stored edges
CoReach(E, v) == { a \in Nodes : v \in Reach(E, a) }

HasCycle(E) == \E v \in Nodes : v \in Reach(E, v)

NoDup(s) == \A i, j \in 1..Len(s) : s[i] = s[j] => i = j

\* a comes strictly before b in the list s
Before(s, a, b) ==
    /\ a \in Range(s)
    /\ b \in Range(s)
    /\ \A i, j \in 1..Len(s) : (s[i] = a /\ s[j] = b) => i < j

\* s lists its elements in the relative order of the list order
InOrderOf(s, order) == \A i, j \in 1..Len(s) : i < j => Before(order, s[i], s[j])

\* ------------------------------------------------------------------ claims
\* C1: after any sequence of add(v), add(v, w) and remove(v) calls, raising
\* ones included, every stored edge v -> w has v strictly before w in toporder.
C1_EdgesRespectToporder ==
    \A v \in DOMAIN edges : \A w \in Range(edges[v]) : Before(toporder, v, w)

C1_Witness ==
    /\ gcall.res = "raise"
    /\ \E a, b, c \in Nodes : a # c /\ IsEdge(edges, a, b) /\ IsEdge(edges, b, c)

\* C2: an add(v, w) that would close a cycle (w already reaches v, or v = w)
\* raises and leaves vertex set, edges and toporder exactly as before the call.
C2_CycleAddRollsBack ==
    [][ (gcall'.op = "add" /\ gcall'.w # None
           /\ (gcall'.v = gcall'.w \/ gcall'.v \in Reach(edges, gcall'.w)))
        => (gcall'.res = "raise" /\ edges' = edges /\ toporder' = toporder) ]_vars

C2_Witness ==
    /\ gcall = [op |-> "add", v |-> 2, w |-> 1, res |-> "raise"]
    /\ DOMAIN edges = {1, 2}
    /\ edges[1] = <<2>>
    /\ edges[2] = <<>>

\* C3: add(v, w) raises exactly when the edge set with v -> w added has a
\* cycle (v = w included); otherwise it succeeds and v -> w is an edge afterwards.
C3_AddRaisesIffCycle ==
    [][ (gcall'.op = "add" /\ gcall'.w # None)
        => LET v == gcall'.v
               w == gcall'.w
               cyclic == v = w \/ v \in Reach(edges, w) \/ HasCycle(edges)
           IN  /\ gcall'.res = "raise" <=> cyclic
               /\ gcall'.res = "ok" => IsEdge(edges', v, w) ]_vars

C3_Witness ==
    /\ gcall.op = "add"
    /\ gcall.res = "ok"
    /\ gcall.w # None
    /\ \E a, b, c \in Nodes : a # c /\ IsEdge(edges, a, b) /\ IsEdge(edges, b, c) /\ IsEdge(edges, a, c)

\* C4: for every vertex v, successors(v) is exactly the set of vertices
\* reachable from v by one or more edges, precursors(v) exactly the set of
\* vertices reaching v, each listed once, in toporder order, never holding v.
C4_ClosureQueries ==
    \A v \in vertices(edges) :
        LET s == successors(edges, toporder, v)
            p == precursors(edges, toporder, v)
        IN  /\ Range(s) = Reach(edges, v) \cap vertices(edges)
            /\ Range(p) = CoReach(edges, v) \cap vertices(edges)
            /\ NoDup(s) /\ NoDup(p)
            /\ InOrderOf(s, toporder) /\ InOrderOf(p, toporder)
            /\ v \notin Range(s) /\ v \notin Range(p)

\* the last node action the call has invoked
LastLog == log'[Len(log')]

HasRun(n, a) == <<n, a>> \in Range(log)

\* C5: within a sweep, for every edge v -> w whose two nodes both have their
\* action invoked: in a start sweep v is Started before w's start is invoked;
\* in a stop or fail sweep w is Stopped/Failed before v's action is invoked.
C5_SweepOrder ==
    [][ (call.res = "running" /\ Len(log') = Len(log) + 1)
        => LET n == LastLog[1]
               a == LastLog[2]
           IN  IF a = "start"
               THEN \A x \in Nodes :
                      /\ (IsEdge(edges, x, n) /\ HasRun(x, a)) => stage[x] = "started"
                      /\ IsEdge(edges, n, x) => ~HasRun(x, a)
               ELSE \A x \in Nodes :
                      /\ (IsEdge(edges, n, x) /\ HasRun(x, a)) => stage[x] = Terminal(a)
                      /\ IsEdge(edges, x, n) => ~HasRun(x, a) ]_vars

C5_Witness ==
    /\ Len(log) = 3
    /\ \A i \in 1..3 : log[i][2] = "stop"
    /\ IsEdge(edges, log[3][1], log[2][1])
    /\ IsEdge(edges, log[2][1], log[1][1])
    /\ earlies = 1

\* the nodes a container call with target t sweeps, as the claims name them
DownSet(t) == IF t = None THEN vertices(edges)
              ELSE IF t \notin vertices(edges) THEN {t}
              ELSE {t} \cup Reach(edges, t) \cup Range(successors(edges, toporder, t))

UpSet(t) == IF t = None THEN vertices(edges)
            ELSE {t} \cup CoReach(edges, t) \cup Range(precursors(edges, toporder, t))

\* C6: with node actions that complete, after a successful start(None) every
\* node of the graph and the container itself are Started; after a successful
\* start(target) the target and all its precursors are Started, whatever mix
\* of Stopped, Started and Failed the nodes were in.
C6_StartedAfterStart ==
    (call.op = "start" /\ call.res = "ok")
    => /\ \A n \in UpSet(call.target) : stage[n] = "started"
       /\ call.target = None => cstage = "started"

C6_Witness ==
    /\ call.op = "start"
    /\ call.res = "ok"
    /\ call.target # None
    /\ Len(precursors(edges, toporder, call.target)) = 2
    /\ Len(log) = 2

\* C7: with node actions that complete, after a successful stop(x) every
\* node of the sweep set (all nodes for None, else successors(x) and x) is
\* Stopped, after a successful fail(x) every such node is Failed.
C7_DownAfterStopFail ==
    (call.op \in {"stop", "fail"} /\ call.res = "ok")
    => \A n \in DownSet(call.target) : stage[n] = Terminal(call.op)

C7_Witness ==
    /\ call.op = "fail"
    /\ call.res = "ok"
    /\ call.target # None
    /\ \E m \in Nodes : /\ m \in Reach(edges, call.target)
                        /\ ~IsEdge(edges, call.target, m)
    /\ Len(log) = 3

\* 'covered' as the claim states it: the target's successors number the
\* vertices minus one
ClaimCovered(t) ==
    /\ t \in vertices(edges)
    /\ Len(successors(edges, toporder, t)) = Cardinality(vertices(edges)) - 1

\* C8: a targeted stop/fail that succeeds ends with the container Stopped
\* (Failed) exactly when covered; when not covered the container's own stage
\* is left unchanged.
C8_CoveredMovesContainer ==
    [][ (call'.op \in {"stop", "fail"} /\ call'.target # None)
        => IF ClaimCovered(call'.target)
           THEN call'.res = "ok" => cstage' = Terminal(call'.op)
           ELSE cstage' = cstage ]_vars

\* C9: start(target) with a target leaves the container's own stage as it
\* was and never sets it to Starting.
C9_TargetedStartKeepsContainer ==
    [][ (call'.op = "start" /\ call'.target # None) => cstage' = cstage ]_vars

\* C10: a targeted sweep invokes actions on and changes the stage of its sweep
\* set only: target and successors for stop/fail, target and precursors for
\* start; every other node keeps its stage.
C10_TargetedFrame ==
    [][ (call'.op \in Actions /\ call'.target # None)
        => LET set == IF call'.op = "start" THEN UpSet(call'.target)
                                            ELSE DownSet(call'.target)
           IN  /\ \A n \in Nodes \ set : stage'[n] = stage[n]
               /\ \A i \in 1..Len(log') : log'[i][1] \in set ]_vars

C10_Witness ==
    /\ call.op = "stop"
    /\ call.res = "ok"
    /\ Len(log) = 2
    /\ \E v \in Nodes : /\ IsEdge(edges, v, call.target)
                        /\ stage[v] = "started"

\* the node the running call handles next, and the action it is handled with
NextNode == Head(todo).n
NextAction == Head(todo).a

Raised(r) == r \notin {"running", "ok"}

\* C11: a container start that reaches a node already Started (target,
\* precursor or full sweep) does not invoke its start action, leaves it
\* Started and raises no error.
C11_StartedIsNoOp ==
    [][ (call.res = "running" /\ NextAction = "start" /\ stage[NextNode] = "started")
        => /\ log' = log
           /\ stage' = stage
           /\ ~Raised(call'.res) ]_vars

C11_Witness ==
    /\ call.op = "start"
    /\ call.res = "ok"
    /\ call.target # None
    /\ Len(precursors(edges, toporder, call.target)) >= 1
    /\ log = <<>>

\* C12: a start that reaches a node in Starting, and a stop that reaches a
\* node in Stopped or Stopping, is a no-op for that node: action not invoked,
\* stage unchanged, and the sweep goes on without raising.
C12_TransientIsNoOp ==
    [][ (/\ call.res = "running"
         /\ \/ NextAction = "start" /\ stage[NextNode] = "starting"
            \/ NextAction = "stop" /\ stage[NextNode] \in {"stopped", "stopping"})
        => /\ log' = log
           /\ stage' = stage
           /\ ~Raised(call'.res) ]_vars

\* the running call set the container's own stage before its sweep
MidFlight ==
    \/ call.op = "start"
    \/ call.target = None
    \/ /\ call.target \in vertices(edges)
       /\ Len(successors(edges, toporder, call.target)) = Len(toporder) - 1

\* C13: when a node's stage after its action is not the terminal stage, the
\* call raises at once: no later node is invoked or changed, nodes already
\* transitioned keep their stage, and a container stage that had entered
\* Starting/Stopping/Failing for this sweep stays there.
C13_FailureAborts ==
    [][ /\ (call.res = "running" /\ stage'[NextNode] # Terminal(NextAction))
           => /\ Raised(call'.res)
              /\ todo' = <<>>
              /\ \A n \in Nodes \ {NextNode} : stage'[n] = stage[n]
              /\ cstage' = cstage
              /\ MidFlight => cstage' = Entering(call.op)
        /\ Raised(call.res)
           => /\ stage' = stage
              /\ cstage' = cstage
              /\ call' = Idle ]_vars

C13_Witness ==
    /\ call.op = "stop"
    /\ call.target = None
    /\ call.res = "LifecycleException"
    /\ cstage = "stopping"
    /\ Len(log) = 2
    /\ stage[log[1][1]] = "stopped"
    /\ stage[log[2][1]] = "stopping"
    /\ \E n \in vertices(edges) : stage[n] = "started"

\* C14: with node actions that complete, after a successful restart(v) of a
\* vertex v, v and every node of successors(v) are Started, whatever mix of
\* Stopped, Started and Failed they were in before.
C14_StartedAfterRestart ==
    (call.op = "restart" /\ call.res = "ok" /\ call.target \in vertices(edges))
    => \A n \in DownSet(call.target) : stage[n] = "started"

C14_Witness ==
    /\ call.op = "restart"
    /\ call.res = "ok"
    /\ Len(successors(edges, toporder, call.target)) = 2
    /\ Len(log) = 6

\* C15: restart(None) restarts the whole graph: with node actions that
\* complete it finishes without error and every node of the graph is Started.
C15_RestartAll ==
    (call.op = "restart" /\ call.target = None /\ call.res # "running")
    => /\ call.res = "ok"
       /\ \A n \in vertices(edges) : stage[n] = "started"

\* C16: after remove(v), v is no vertex, no edge list mentions v and v is
\* not in toporder, whatever adds came before (the same edge added twice
\* included); the call never raises.
C16_RemoveForgets ==
    [][ gcall'.op = "remove"
        => LET v == gcall'.v
           IN  /\ gcall'.res = "ok"
               /\ v \notin vertices(edges')
               /\ \A k \in DOMAIN edges' : v \notin Range(edges'[k])
               /\ v \notin Range(toporder') ]_vars

\* C17: add(v, w) for an edge v -> w that already exists raises no error and
\* leaves the graph as the first call left it: same vertices, v -> w stored once.
C17_DuplicateAddIdempotent ==
    [][ (gcall'.op = "add" /\ gcall'.w # None /\ IsEdge(edges, gcall'.v, gcall'.w))
        => /\ gcall'.res = "ok"
           /\ edges' = edges ]_vars

\* C18: successors(v) and precursors(v) signal an error for a v that is no
\* vertex and never return a list for it; for a vertex without successors
\* (precursors) they return the empty list without error.
C18_AbsentVertexErrors ==
    \A v \in Nodes :
        LET s == successorsCall(edges, toporder, v)
            p == precursorsCall(edges, toporder, v)
        IN  IF v \notin vertices(edges)
            THEN s.res # "ok" /\ p.res # "ok"
            ELSE /\ Reach(edges, v) = {} => s = [res |-> "ok", ret |-> <<>>]
                 /\ CoReach(edges, v) = {} => p = [res |-> "ok", ret |-> <<>>]

\* C19: the toporder is determined by the history of add and remove calls:
\* the sort of the edges that history stored has one outcome, also when
\* several vertices have zero in-degree at the same time.
C19_ToporderDetermined ==
    \A r \in Toposort(edges) : r.order = toporder

\* C20: after any sequence of register, add(key, value) and instance_of
\* calls, no value placed in the container with add(key, value) is a vertex of
\* the graph or appears in toporder, also when it is injected as a constructor
\* dependency, by name or through a hint.
C20_ConstantsOutsideGraph ==
    \A value \in constants :
        /\ value \notin vertices(edges)
        /\ value \notin Range(toporder)

\* C21: after any sequence of add and remove calls, toporder holds every
\* current vertex exactly once and nothing that is not a current vertex, so
\* len(toporder) is the number of vertices.
C21_ToporderIsVertices ==
    /\ Range(toporder) = vertices(edges)
    /\ NoDup(toporder)
    /\ Len(toporder) = Cardinality(vertices(edges))

\* the list s without the entries equal to x
Without(s, x) == Filter(s, Range(s) \ {x})

\* C22: remove(v) yields the previous toporder with v deleted; the vertices
\* that remain keep their relative order.
C22_RemoveKeepsOrder ==
    [][ gcall'.op = "remove" => toporder' = Without(toporder, gcall'.v) ]_vars

\* C23: whenever a node's stage after its action is not the terminal stage,
\* the container raises LifecycleException and no other error, in start, stop
\* and fail, full and targeted, for the target and for every cascaded node.
C23_RaisesLifecycleException ==
    [][ (call.res = "running" /\ stage'[NextNode] # Terminal(NextAction))
        => call'.res = "LifecycleException" ]_vars

\* the log entry of the start action of node n
StartOf(n) == <<n, "start">>

\* the successors of the target of the call, in toporder order
TargetSuccessors == successors(edges, toporder, call.target)

RestartDone ==
    call.op = "restart" /\ call.res = "ok" /\ call.target \in vertices(edges)

\* C24 as stated: in restart(target), after the stop phase, the start
\* actions of successors(target) are invoked in ascending topological order
\* and target's own start action is invoked after those of all its successors.
C24_TargetStartsLast ==
    RestartDone
    => /\ HasRun(call.target, "start")
       /\ \A i, j \in 1..Len(TargetSuccessors) :
             i < j => Before(log, StartOf(TargetSuccessors[i]), StartOf(TargetSuccessors[j]))
       /\ \A i \in 1..Len(TargetSuccessors) :
             Before(log, StartOf(TargetSuccessors[i]), StartOf(call.target))

\* C24 amended: in restart(target), after the stop phase, target's own start
\* action is invoked first and the start actions of successors(target) are
\* invoked after it, in ascending topological order.
C24_TargetStartsFirst ==
    RestartDone
    => /\ HasRun(call.target, "start")
       /\ \A i, j \in 1..Len(TargetSuccessors) :
             i < j => Before(log, StartOf(TargetSuccessors[i]), StartOf(TargetSuccessors[j]))
       /\ \A i \in 1..Len(TargetSuccessors) :
             Before(log, StartOf(call.target), StartOf(TargetSuccessors[i]))

C24_Witness ==
    /\ RestartDone
    /\ Len(TargetSuccessors) = 2
    /\ ~IsEdge(edges, TargetSuccessors[1], TargetSuccessors[2])
    /\ Len(log) = 6
    /\ log[4] = StartOf(call.target)

\* C25: with a fixed graph, all nodes Stopped at first, node actions that
\* complete and every stage change made by container start/stop/fail/restart
\* calls, in every state (mid-sweep included) every Started node has all of
\* its precursors Started.
C25_StartedHasStartedPrecursors ==
    \A n \in Nodes :
        stage[n] = "started" => \A p \in CoReach(edges, n) : stage[p] = "started"

C25_Witness ==
    /\ call.op = "start"
    /\ call.res = "running"
    /\ \E n \in Nodes : stage[n] = "started" /\ CoReach(edges, n) # {}
    /\ \E n \in vertices(edges) : stage[n] = "failed"

\* C26: when nodes enter the graph Stopped, node actions complete and every
\* stage change is made by container calls (graph additions and removals in
\* between), in every state (mid-sweep included) in which the container's own
\* stage is Stopped or Failed no node of the graph is Started.
C26_DownContainerHasNoStartedNode ==
    cstage \in {"stopped", "failed"}
    => \A n \in vertices(edges) : stage[n] # "started"

C26_Witness ==
    /\ cstage = "failed"
    /\ call.op = "fail"
    /\ call.res = "ok"
    /\ call.target # None
    /\ Cardinality(vertices(edges)) = 2
    /\ \E n \in Nodes \ vertices(edges) : stage[n] = "started"

\* ------------------------------------------------------------ specification
Init ==
    /\ edges = <<>>
    /\ toporder = <<>>
    /\ gcall = NoCall
    /\ stage = [n \in Nodes |-> "stopped"]
    /\ cstage = "stopped"
    /\ call = Idle
    /\ todo = <<>>
    /\ log = <<>>
    /\ gcalls = 0
    /\ earlies = 0
    /\ component_registry = <<>>
    /\ component_names = <<>>
    /\ instance_registry = <<>>
    /\ classOf = <<>>
    /\ constants = {}
    /\ pcall = NoPCall

GraphNext ==
    \/ \E v \in Nodes, w \in Nodes \cup {None} : GraphAdd(v, w)
    \/ GraphAddNone
    \/ \E v \in Nodes : GraphRemove(v)

GraphSpec == Init /\ [][GraphNext /\ UNCHANGED <<gcalls, earlies>>]_vars

\* graph calls are made between container calls, never inside one
LifeNext ==
    \/ call = Idle /\ gcalls < MaxGraphCalls /\ GraphNext /\ gcalls' = gcalls + 1 /\ UNCHANGED earlies
    \/ \E o \in Actions, t \in Nodes \cup {None} : Begin(o, t)
    \/ Step(FALSE)
    \/ Return
    \/ \E n \in Nodes, a \in Actions : NodeCall(n, a)

Spec == Init /\ [][LifeNext]_vars

\* everything is still as constructed: the container and every node Stopped
Fresh ==
    /\ cstage = "stopped"
    /\ \A n \in Nodes : stage[n] = "stopped"
    /\ earlies = 0

\* the graph is built first; then container calls only, on nodes whose
\* actions may return early
FaultNext ==
    \/ call = Idle /\ Fresh /\ gcalls < MaxGraphCalls /\ GraphNext /\ gcalls' = gcalls + 1 /\ UNCHANGED earlies
    \/ \E o \in Actions, t \in Nodes \cup {None} : Begin(o, t)
    \/ Step(TRUE)
    \/ Return

FaultSpec == Init /\ [][FaultNext]_vars

\* the graph is built first; then restarts, on nodes whose actions complete
\* and whose own start, stop and fail are also called directly
RestartNext ==
    \/ call = Idle /\ Fresh /\ gcalls < MaxGraphCalls /\ GraphNext /\ gcalls' = gcalls + 1 /\ UNCHANGED earlies
    \/ \E t \in Nodes \cup {None} : Begin("restart", t)
    \/ Step(FALSE)
    \/ Return
    \/ \E n \in Nodes, a \in Actions : NodeCall(n, a)

RestartSpec == Init /\ [][RestartNext]_vars

Methods == Actions \cup {"restart"}

\* the graph is built first; then the four container calls only, on nodes
\* whose actions complete
SweepNext ==
    \/ call = Idle /\ Fresh /\ gcalls < MaxGraphCalls /\ GraphNext /\ gcalls' = gcalls + 1 /\ UNCHANGED earlies
    \/ \E o \in Methods, t \in Nodes \cup {None} : Begin(o, t)
    \/ Step(FALSE)
    \/ Return

SweepSpec == Init /\ [][SweepNext]_vars

\* add(v, w) brings only Stopped nodes into the graph
EntersStopped(v, w) ==
    \A n \in ({v, w} \ {None}) \ vertices(edges) : stage[n] = "stopped"

\* graph calls between container calls, every node entering the graph
\* Stopped; the four container calls, on nodes whose actions complete
ManagedNext ==
    \/ /\ call = Idle
       /\ gcalls < MaxGraphCalls
       /\ \/ \E v \in Nodes, w \in Nodes \cup {None} : EntersStopped(v, w) /\ GraphAdd(v, w)
          \/ GraphAddNone
          \/ \E v \in Nodes : GraphRemove(v)
       /\ gcalls' = gcalls + 1
       /\ UNCHANGED earlies
    \/ \E o \in Methods, t \in Nodes \cup {None} : Begin(o, t)
    \/ Step(FALSE)
    \/ Return

ManagedSpec == Init /\ [][ManagedNext]_vars

\* the calls of Pycocontainer that fill the registries and the graph
PicoNext ==
    \/ \E cls \in Classes, name \in Keys : Register(cls, name)
    \/ \E key \in Keys, cls \in Classes \cup {PlainClass} : Add(key, cls)
    \/ AddNone
    \/ \E cls \in Classes, name \in Keys, hints \in HintSets : InstanceOf(cls, name, hints)

PicoSpec == Init /\ [][PicoNext]_vars

====
